---- MODULE Spec2Model ----
(***************************************************************************)
(* WorkspaceEditingService (vs/workbench/services/workspace/node):         *)
(* addRoots / removeRoots reconcile the root folders of a workspace and    *)
(* hand the result to the JSON writer, the choice prompt and the window    *)
(* opener.                                                                 *)
(*                                                                         *)
(* Strings are sequences of one-character strings, so that the three       *)
(* string forms of a URI the service uses (fsPath, toString(),             *)
(* toString(true)) are computed, not assumed equal.                        *)
(***************************************************************************)
EXTENDS Integers, Sequences, FiniteSets, TLC

\* ------------------------------------------------------------------ bounds
\* longest root list the workspace context holds
MaxRoots == 2
\* longest argument list handed to addRoots / removeRoots
MaxArgs == 2
\* longest list handed to validateRoots directly
MaxProbeLen == 3

\* ------------------------------------------------------------- vs/base URI
\* A URI is its decoded components (vs/base/common/uri).
MkUri(scheme, path, fragment) == [scheme |-> scheme, path |-> path, fragment |-> fragment]

fileScheme == <<"f", "i", "l", "e">>

\* file:///a
uriA == MkUri(fileScheme, <<"/", "a">>, <<>>)
\* a folder whose name holds a '#': path "/a#b"
uriAHashB == MkUri(fileScheme, <<"/", "a", "#", "b">>, <<>>)
\* path "/a" with fragment "b"
uriAFragB == MkUri(fileScheme, <<"/", "a">>, <<"b">>)
\* a URI without scheme: path "/p"
uriP == MkUri(<<>>, <<"/", "p">>, <<>>)

Uris == {uriA, uriAHashB, uriAFragB, uriP}

\* encodeURIComponent on one character ('#' and '/' are reserved)
encodeChar(c) ==
    IF c = "#" THEN <<"%", "2", "3">>
    ELSE IF c = "/" THEN <<"%", "2", "F">>
    ELSE <<c>>

RECURSIVE encodeURIComponent2(_)
encodeURIComponent2(str) ==
    IF str = <<>> THEN <<>>
    ELSE encodeChar(Head(str)) \o encodeURIComponent2(Tail(str))

encodeNoop(str) == str

\* the path is encoded segment by segment, the slashes are kept
RECURSIVE encodePath(_, _)
encodePath(path, skipEncoding) ==
    IF path = <<>> THEN <<>>
    ELSE (IF Head(path) = "/" \/ skipEncoding THEN <<Head(path)>> ELSE encodeChar(Head(path)))
         \o encodePath(Tail(path), skipEncoding)

\* URI.toString(skipEncoding)
toString(uri, skipEncoding) ==
    (IF uri.scheme # <<>> THEN uri.scheme \o <<":">> ELSE <<>>)
    \o (IF uri.scheme = fileScheme THEN <<"/", "/">> ELSE <<>>)
    \o encodePath(uri.path, skipEncoding)
    \o (IF uri.fragment # <<>>
        THEN <<"#">> \o (IF skipEncoding THEN encodeNoop(uri.fragment)
                         ELSE encodeURIComponent2(uri.fragment))
        ELSE <<>>)

\* decodeURIComponent: the inverse of encodeChar
RECURSIVE decodeURIComponent(_)
decodeURIComponent(str) ==
    IF str = <<>> THEN <<>>
    ELSE IF Len(str) >= 3 /\ SubSeq(str, 1, 3) = <<"%", "2", "3">>
         THEN <<"#">> \o decodeURIComponent(SubSeq(str, 4, Len(str)))
    ELSE IF Len(str) >= 3 /\ SubSeq(str, 1, 3) = <<"%", "2", "F">>
         THEN <<"/">> \o decodeURIComponent(SubSeq(str, 4, Len(str)))
    ELSE <<Head(str)>> \o decodeURIComponent(Tail(str))

\* the position of the first character of str that is in chars, Len(str) + 1 if none
firstOf(str, chars) ==
    IF \E k \in 1..Len(str) : str[k] \in chars
    THEN CHOOSE k \in 1..Len(str) : str[k] \in chars /\ \A j \in 1..(k - 1) : str[j] \notin chars
    ELSE Len(str) + 1

\* URI.parse: [scheme ":"] ["//" authority] path ["#" fragment], components decoded
parse(str) ==
    LET colon == firstOf(str, {":", "/", "#"})
        hasScheme == colon > 1 /\ colon <= Len(str) /\ str[colon] = ":"
        afterScheme == IF hasScheme THEN SubSeq(str, colon + 1, Len(str)) ELSE str
        hasAuthority == Len(afterScheme) >= 2 /\ SubSeq(afterScheme, 1, 2) = <<"/", "/">>
        fromAuthority == IF hasAuthority THEN SubSeq(afterScheme, 3, Len(afterScheme)) ELSE afterScheme
        fromPath == IF hasAuthority
                    THEN SubSeq(fromAuthority, firstOf(fromAuthority, {"/", "#"}), Len(fromAuthority))
                    ELSE fromAuthority
        hash == firstOf(fromPath, {"#"})
    IN MkUri(IF hasScheme THEN SubSeq(str, 1, colon - 1) ELSE <<>>,
             decodeURIComponent(SubSeq(fromPath, 1, hash - 1)),
             decodeURIComponent(SubSeq(fromPath, hash + 1, Len(fromPath))))

\* strs.map(str => URI.parse(str))
parseAll(strs) == [k \in 1..Len(strs) |-> parse(strs[k])]

\* URI.fsPath (no authority, no drive letter, posix separators)
fsPath(uri) == uri.path

\* uris.map(uri => uri.toString(skipEncoding))
toStrings(uris, skipEncoding) == [k \in 1..Len(uris) |-> toString(uris[k], skipEncoding)]

\* uris.map(uri => uri.fsPath)
fsPaths(uris) == [k \in 1..Len(uris) |-> fsPath(uris[k])]

\* ---------------------------------------------------------- vs/base arrays
Range(s) == {s[k] : k \in 1..Len(s)}

indexOf(s, e) ==
    IF e \in Range(s) THEN CHOOSE k \in 1..Len(s) : s[k] = e /\ \A j \in 1..(k - 1) : s[j] # e
    ELSE -1

\* arrays.distinct: keeps the first occurrence of every element
RECURSIVE distinctFrom(_, _)
distinctFrom(array, seen) ==
    IF array = <<>> THEN <<>>
    ELSE IF Head(array) \in seen THEN distinctFrom(Tail(array), seen)
    ELSE <<Head(array)>> \o distinctFrom(Tail(array), seen \cup {Head(array)})

distinct(array) == distinctFrom(array, {})

\* arrays.equals: same length and element-wise equal
equals(one, other) ==
    /\ Len(one) = Len(other)
    /\ \A k \in 1..Len(one) : one[k] = other[k]

\* ------------------------------------------------------------------- state
VARIABLES
    roots,          \* contextService.getWorkspace().roots
    configuration,  \* contextService.getWorkspace().configuration
    hasWorkspace,   \* contextService.hasWorkspace()
    appQuality,     \* environmentService.appQuality
    files,          \* the JSON documents on disk, by path
    inv,            \* the addRoots / removeRoots invocations, by caller
    generated,      \* the values uuid.generateUuid() has returned so far
    probe,          \* a direct application of validateRoots: its input and result
    scenario        \* the host's add-then-remove sequence: what it remembers

vars == <<roots, configuration, hasWorkspace, appQuality, files, inv, generated, probe, scenario>>

\* the Workspace Context and the environment, as the service reads them
context == <<roots, configuration, hasWorkspace, appQuality>>

\* workspace.configuration is undefined
NoConfiguration == "undefined"
\* the configuration file of the workspace that is already open
existingConfiguration == "/ws/existing.vscode"
\* environmentService.appSettingsHome
appSettingsHome == "/settings"
\* the values uuid.generateUuid() may return
Uuids == {"uuid1", "uuid2"}

Callers == {"caller1", "caller2"}
\* the callers that take part in Spec: one invocation, followed to its end
SerialCallers == {"caller1"}

SeqsUpTo(S, n) == UNION {[1..k -> S] : k \in 0..n}

\* a Root Set holds no two roots of the same canonical form
RootLists ==
    {s \in SeqsUpTo(Uris, MaxRoots) :
        \A j, k \in 1..Len(s) : j # k => toString(s[j], TRUE) # toString(s[k], TRUE)}

ArgLists == SeqsUpTo(Uris, MaxArgs)

\* path.join(dir, name)
pathJoin(dir, name) == dir \o "/" \o name

\* one call of a collaborator, as the service issued it
Call(svc, target, key, value) ==
    [svc |-> svc, target |-> target, key |-> key, value |-> value, outcome |-> "pending"]

IdleInvocation ==
    [pc |-> "idle", op |-> "none", arg |-> <<>>, gate |-> FALSE, cur |-> <<>>,
     cfg |-> NoConfiguration, desired |-> <<>>, option |-> -1,
     newConfiguration |-> NoConfiguration, calls |-> <<>>, result |-> "none"]

\* validateRoots has not been applied directly
NoProbe == [pc |-> "none", input |-> <<>>, output |-> <<>>]

\* the host runs no add-then-remove sequence
NoScenario == [phase |-> "none", before |-> <<>>, added |-> <<>>]

\* the promise returned to the caller settles
settle(rec, result) == [rec EXCEPT !.pc = "done", !.result = result]

\* the last call issued by the invocation settles
outcome(rec, how) == [rec EXCEPT !.calls[Len(rec.calls)].outcome = how]

\* jsonEditingService.write(target, {key, value}, true): the document after
\* the write; the empty key replaces the whole document
writeJson(docs, target, key, value) ==
    LET old == IF target \in DOMAIN docs THEN docs[target] ELSE [f \in {} |-> <<>>]
        new == IF key = "" THEN value
               ELSE [f \in DOMAIN old \cup {key} |-> IF f = key THEN value ELSE old[f]]
    IN [p \in DOMAIN docs \cup {target} |-> IF p = target THEN new ELSE docs[p]]

\* ----------------------------------------------- WorkspaceEditingService
supported ==
    IF hasWorkspace THEN FALSE
    ELSE appQuality # "stable"

\* `this.supported` as addRoots and removeRoots read it: the method itself,
\* not its result; a function object is truthy
thisSupported == TRUE

\* null: a value that is no array
null == [k \in {0} |-> "null"]

\* mutant: the duplicates are kept
validateRootsKeepsDuplicates(rs) == IF rs = null THEN <<>> ELSE toStrings(rs, TRUE)

reverse(s) == [k \in 1..Len(s) |-> s[Len(s) + 1 - k]]

\* mutant: of two equal entries the last one is kept
validateRootsKeepsLastOccurrence(rs) ==
    IF rs = null THEN <<>> ELSE reverse(distinct(reverse(toStrings(rs, TRUE))))

validateRoots(rs) ==
    IF rs = null THEN <<>>
    ELSE distinct(toStrings(rs, TRUE))

\* mutant: one identifier, generated once, names every new configuration
_doCreateWorkspaceSharedId(rec, folders, ID) ==
    LET newConfiguration == pathJoin(appSettingsHome, "uuid1" \o ".vscode") IN
    [rec EXCEPT !.pc = "create_write",
                !.newConfiguration = newConfiguration,
                !.calls = Append(@, Call("write", newConfiguration, "",
                                         [ID |-> "uuid1", folders |-> folders]))]

_doCreateWorkspace(rec, folders, ID) ==
    LET newConfiguration == pathJoin(appSettingsHome, ID \o ".vscode") IN
    [rec EXCEPT !.pc = "create_write",
                !.newConfiguration = newConfiguration,
                !.calls = Append(@, Call("write", newConfiguration, "",
                                         [ID |-> ID, folders |-> folders]))]

\* mutant: the prompt is skipped
createWorkspaceWithoutPrompt(rec, newRoots) == _doCreateWorkspace(rec, newRoots, "uuid1")

createWorkspace(rec, newRoots) ==
    [rec EXCEPT !.pc = "choose",
                !.calls = Append(@, Call("choose", NoConfiguration, "", <<>>))]

\* mutant: the test of workspace.configuration is dropped
doSetRootsIgnoresConfiguration(rec, newRoots) ==
    LET currentWorkspaceRoots == fsPaths(roots)
        newWorkspaceRoots == validateRoots(newRoots)
        r == [rec EXCEPT !.desired = newWorkspaceRoots]
    IN  IF equals(currentWorkspaceRoots, newWorkspaceRoots) THEN settle(r, "ok")
        ELSE IF Len(newWorkspaceRoots) # 0 THEN createWorkspace(r, newWorkspaceRoots)
        ELSE settle(r, "ok")

\* mutant: an empty list is written like any other
doSetRootsWritesEmptyList(rec, newRoots) ==
    LET workspace == [roots |-> roots, configuration |-> configuration]
        currentWorkspaceRoots == fsPaths(roots)
        newWorkspaceRoots == validateRoots(newRoots)
        r == [rec EXCEPT !.desired = newWorkspaceRoots]
    IN  IF equals(currentWorkspaceRoots, newWorkspaceRoots) THEN settle(r, "ok")
        ELSE IF workspace.configuration = NoConfiguration
        THEN createWorkspace(r, newWorkspaceRoots)
        ELSE [r EXCEPT !.pc = "folders_write",
                       !.calls = Append(@, Call("write", workspace.configuration,
                                                "folders", newWorkspaceRoots))]

doSetRoots(rec, newRoots) ==
    LET workspace == [roots |-> roots, configuration |-> configuration]
        currentWorkspaceRoots == fsPaths(roots)
        newWorkspaceRoots == validateRoots(newRoots)
        r == [rec EXCEPT !.desired = newWorkspaceRoots]
    IN  IF equals(currentWorkspaceRoots, newWorkspaceRoots) THEN settle(r, "ok")
        ELSE IF Len(newWorkspaceRoots) # 0 THEN
            IF workspace.configuration = NoConfiguration
            THEN createWorkspace(r, newWorkspaceRoots)
            ELSE [r EXCEPT !.pc = "folders_write",
                           !.calls = Append(@, Call("write", workspace.configuration,
                                                    "folders", newWorkspaceRoots))]
        ELSE settle(r, "ok")

\* what the caller handed in and what the context was when it called
called(op, arg) ==
    [IdleInvocation EXCEPT !.op = op, !.arg = arg, !.gate = supported,
                           !.cur = roots, !.cfg = configuration]

addRootsResult(rootsToAdd) ==
    IF ~thisSupported THEN settle(called("add", rootsToAdd), "ok")
    ELSE doSetRoots(called("add", rootsToAdd), roots \o rootsToAdd)

removeRootsResult(rootsToRemove) ==
    IF ~thisSupported THEN settle(called("remove", rootsToRemove), "ok")
    ELSE LET rootsToRemoveRaw == toStrings(rootsToRemove, FALSE)
         IN doSetRoots(called("remove", rootsToRemove),
                       SelectSeq(roots, LAMBDA root : indexOf(rootsToRemoveRaw, toString(root, FALSE)) = -1))

addRoots(i, rootsToAdd) ==
    /\ inv[i].pc = "idle"
    /\ inv' = [inv EXCEPT ![i] = addRootsResult(rootsToAdd)]
    /\ UNCHANGED <<context, files, generated, probe, scenario>>

removeRoots(i, rootsToRemove) ==
    /\ inv[i].pc = "idle"
    /\ inv' = [inv EXCEPT ![i] = removeRootsResult(rootsToRemove)]
    /\ UNCHANGED <<context, files, generated, probe, scenario>>

\* ----------------------------------------------- the promise chains settle
\* mutant: a rejected prompt is treated like an answer
afterChooseIgnoresRejection(rec, how, option, ID) ==
    _doCreateWorkspace([outcome(rec, how) EXCEPT !.option = option], rec.desired, "uuid1")

\* mutant: the answer 'No' ends the operation without a new workspace
afterChooseNoDeclines(rec, how, option, ID) ==
    IF how = "ok" /\ option = 0
    THEN _doCreateWorkspace([outcome(rec, "ok") EXCEPT !.option = option], rec.desired, ID)
    ELSE IF how = "ok" THEN settle([outcome(rec, "ok") EXCEPT !.option = option], "ok")
    ELSE settle(outcome(rec, "fail"), "fail")

\* what follows choiceService.choose(...) in createWorkspace
afterChoose(rec, how, option, ID) ==
    IF how = "ok"
    THEN _doCreateWorkspace([outcome(rec, "ok") EXCEPT !.option = option], rec.desired, ID)
    ELSE settle(outcome(rec, "fail"), "fail")

\* mutant: the window is opened whether or not the write succeeded
afterCreateWriteOpensAnyway(rec, how) ==
    [outcome(rec, how) EXCEPT
        !.pc = "open",
        !.calls = Append(@, Call("openWindow", rec.newConfiguration, "", <<>>))]

\* what follows jsonEditingService.write(...) in _doCreateWorkspace:
\* .then(() => newConfiguration).then(c => windowsService.openWindow([c]))
afterCreateWrite(rec, how) ==
    IF how = "ok"
    THEN [outcome(rec, "ok") EXCEPT
             !.pc = "open",
             !.calls = Append(@, Call("openWindow", rec.newConfiguration, "", <<>>))]
    ELSE settle(outcome(rec, "fail"), "fail")

\* what follows windowsService.openWindow(...): the chain's last promise
afterOpenWindow(rec, how) == settle(outcome(rec, how), how)

\* mutant: a failed write is tried again
afterFoldersWriteRetries(rec, how) ==
    IF how = "ok" THEN settle(outcome(rec, how), how)
    ELSE [outcome(rec, how) EXCEPT !.calls = Append(@, [rec.calls[Len(rec.calls)] EXCEPT !.outcome = "pending"])]

\* mutant: the writer's error is swallowed
afterFoldersWriteSwallowsError(rec, how) == settle(outcome(rec, how), "ok")

\* what follows jsonEditingService.write(configuration, {key: 'folders'}): returned as is
afterFoldersWrite(rec, how) == settle(outcome(rec, how), how)

\* uuid.generateUuid() may return ID: a value it has not returned before
generateUuid(ID) == ID \notin generated

\* the prompt settles; an answer leads to _doCreateWorkspace and its generateUuid()
chooseSettles(i, how, option, ID) ==
    /\ inv[i].pc = "choose"
    /\ how = "ok" => generateUuid(ID)
    /\ inv' = [inv EXCEPT ![i] = afterChoose(inv[i], how, option, ID)]
    /\ generated' = IF how = "ok" THEN generated \cup {ID} ELSE generated
    /\ UNCHANGED <<context, files, probe, scenario>>

\* mutant: a 'folders' write is merged into the list on disk
writeSettlesMergesFolders(i, how) ==
    /\ inv[i].pc \in {"create_write", "folders_write"}
    /\ LET rec == inv[i]
           call == rec.calls[Len(rec.calls)]
           merged == IF call.key = "folders" /\ call.target \in DOMAIN files
                     THEN distinct(files[call.target].folders \o call.value)
                     ELSE call.value
       IN /\ files' = IF how = "ok" THEN writeJson(files, call.target, call.key, merged)
                      ELSE files
          /\ inv' = [inv EXCEPT ![i] = IF rec.pc = "create_write"
                                       THEN afterCreateWrite(rec, how)
                                       ELSE afterFoldersWrite(rec, how)]
    /\ UNCHANGED <<context, generated, probe, scenario>>

\* mutant: the service adopts the configuration it has just written
writeSettlesAdoptsConfiguration(i, how) ==
    /\ inv[i].pc \in {"create_write", "folders_write"}
    /\ LET rec == inv[i]
           call == rec.calls[Len(rec.calls)]
       IN /\ files' = IF how = "ok" THEN writeJson(files, call.target, call.key, call.value)
                      ELSE files
          /\ configuration' = IF how = "ok" THEN call.target ELSE configuration
          /\ inv' = [inv EXCEPT ![i] = IF rec.pc = "create_write"
                                       THEN afterCreateWrite(rec, how)
                                       ELSE afterFoldersWrite(rec, how)]
    /\ UNCHANGED <<roots, hasWorkspace, appQuality, generated, probe, scenario>>

\* the writer settles: a write that succeeded is on disk, one that failed is not
writeSettles(i, how) ==
    /\ inv[i].pc \in {"create_write", "folders_write"}
    /\ LET rec == inv[i]
           call == rec.calls[Len(rec.calls)]
       IN /\ files' = IF how = "ok" THEN writeJson(files, call.target, call.key, call.value)
                      ELSE files
          /\ inv' = [inv EXCEPT ![i] = IF rec.pc = "create_write"
                                       THEN afterCreateWrite(rec, how)
                                       ELSE afterFoldersWrite(rec, how)]
    /\ UNCHANGED <<context, generated, probe, scenario>>

openWindowSettles(i, how) ==
    /\ inv[i].pc = "open"
    /\ inv' = [inv EXCEPT ![i] = afterOpenWindow(inv[i], how)]
    /\ UNCHANGED <<context, files, generated, probe, scenario>>

\* validateRoots applied to the probe's input
validateRootsCalled ==
    /\ probe.pc = "ready"
    /\ probe' = [probe EXCEPT !.pc = "returned", !.output = validateRoots(probe.input)]
    /\ UNCHANGED <<context, files, inv, generated, scenario>>

\* ----------------------------------------------------------- specification
Init ==
    /\ roots \in RootLists
    /\ configuration \in {NoConfiguration, existingConfiguration}
    /\ hasWorkspace \in BOOLEAN
    /\ appQuality \in {"stable", "insider"}
    /\ files = IF configuration = NoConfiguration THEN [p \in {} |-> <<>>]
               ELSE [p \in {configuration} |->
                        [id |-> "uuid0",
                         folders |-> toStrings(roots, TRUE)]]
    /\ inv = [i \in Callers |-> IdleInvocation]
    /\ generated = {}
    /\ probe = NoProbe
    /\ scenario = NoScenario

Step(i) ==
    \/ \E rootsToAdd \in ArgLists : addRoots(i, rootsToAdd)
    \/ \E rootsToRemove \in ArgLists : removeRoots(i, rootsToRemove)
    \/ \E option \in {0, 1}, ID \in Uuids : chooseSettles(i, "ok", option, ID)
    \/ chooseSettles(i, "fail", -1, "")
    \/ \E how \in {"ok", "fail"} : writeSettles(i, how)
    \/ \E how \in {"ok", "fail"} : openWindowSettles(i, how)

Next == \E i \in SerialCallers : Step(i)

Spec == Init /\ [][Next]_vars

\* two callers, no mutual exclusion: each adds one root while the gate allows,
\* and the context shows none of the writes while the invocations run
InitConcurrent ==
    /\ Init
    /\ ~hasWorkspace
    /\ appQuality = "insider"

StepConcurrent(i) ==
    \/ \E root \in Uris : addRoots(i, <<root>>)
    \/ \E option \in {0, 1}, ID \in Uuids : chooseSettles(i, "ok", option, ID)
    \/ chooseSettles(i, "fail", -1, "")
    \/ \E how \in {"ok", "fail"} : writeSettles(i, how)
    \/ \E how \in {"ok", "fail"} : openWindowSettles(i, how)

NextConcurrent == \E i \in Callers : StepConcurrent(i)

SpecConcurrent == InitConcurrent /\ [][NextConcurrent]_vars

\* a collaborator call of invocation i settles
Settles(i) ==
    \/ \E option \in {0, 1}, ID \in Uuids : chooseSettles(i, "ok", option, ID)
    \/ chooseSettles(i, "fail", -1, "")
    \/ \E how \in {"ok", "fail"} : writeSettles(i, how)
    \/ \E how \in {"ok", "fail"} : openWindowSettles(i, how)

\* one invocation whose collaborator calls all settle, sooner or later
SpecFair == InitConcurrent /\ [][Next]_vars /\ \A i \in SerialCallers : WF_vars(Settles(i))

\* ---- the host serializes: one invocation in flight, the context follows the file
\* the roots the workspace context reads from the persisted folders
rootsOf(docs, target) == parseAll(docs[target].folders)

\* the host takes the settled invocation's result; the context follows the
\* persisted folders before the next call starts
returned(i) ==
    /\ inv[i].pc = "done"
    /\ scenario.phase \in {"add", "remove"}
    /\ inv' = [inv EXCEPT ![i] = IdleInvocation]
    /\ roots' = rootsOf(files, configuration)
    /\ scenario' = [scenario EXCEPT !.phase = IF inv[i].result # "ok" THEN "failed"
                                              ELSE IF @ = "add" THEN "remove"
                                              ELSE "end"]
    /\ UNCHANGED <<configuration, hasWorkspace, appQuality, files, generated, probe>>

\* an existing configuration with a non-empty folders list the context reflects;
\* the host is to add roots that are not present and then remove exactly those
InitSerial ==
    /\ roots \in RootLists \ {<<>>}
    /\ configuration = existingConfiguration
    /\ hasWorkspace \in BOOLEAN
    /\ appQuality \in {"stable", "insider"}
    /\ files = [p \in {configuration} |->
                    [id |-> "uuid0", folders |-> toStrings(roots, TRUE)]]
    /\ roots = rootsOf(files, configuration)
    /\ inv = [i \in Callers |-> IdleInvocation]
    /\ generated = {}
    /\ probe = NoProbe
    /\ scenario \in {sc \in [phase : {"add"}, before : {files[configuration].folders},
                               added : ArgLists \ {<<>>}] :
                        \A k \in 1..Len(sc.added) :
                            toString(sc.added[k], TRUE) \notin Range(sc.before)}

StepSerial(i) ==
    \/ scenario.phase = "add" /\ addRoots(i, scenario.added)
    \/ scenario.phase = "remove" /\ removeRoots(i, scenario.added)
    \/ \E how \in {"ok", "fail"} : writeSettles(i, how)
    \/ returned(i)

NextSerial == \E i \in SerialCallers : StepSerial(i)

SpecSerial == InitSerial /\ [][NextSerial]_vars

\* validateRoots on its own: any list of roots, or null, in any context
InitValidate ==
    /\ roots \in RootLists
    /\ configuration \in {NoConfiguration, existingConfiguration}
    /\ hasWorkspace \in BOOLEAN
    /\ appQuality \in {"stable", "insider"}
    /\ files = [p \in {} |-> <<>>]
    /\ inv = [i \in Callers |-> IdleInvocation]
    /\ generated = {}
    /\ probe \in [pc : {"ready"}, input : SeqsUpTo(Uris, MaxProbeLen) \cup {null}, output : {<<>>}]
    /\ scenario = NoScenario

SpecValidate == InitValidate /\ [][validateRootsCalled]_vars

TypeOK ==
    /\ roots \in RootLists
    /\ configuration \in {NoConfiguration, existingConfiguration}
    /\ hasWorkspace \in BOOLEAN
    /\ \A i \in Callers :
        /\ inv[i].pc \in {"idle", "choose", "create_write", "open", "folders_write", "done"}
        /\ inv[i].result \in {"none", "ok", "fail"}
        /\ (inv[i].pc = "done") = (inv[i].result # "none")

\* ------------------------------------------------------------------ claims
\* the canonical string form of a root: the one validateRoots keeps
canonical(root) == toString(root, TRUE)

canonicals(rs) == [k \in 1..Len(rs) |-> canonical(rs[k])]

started(rec) == rec.pc # "idle"

callsOf(rec, svc) == {k \in 1..Len(rec.calls) : rec.calls[k].svc = svc}

noCollaboratorCall(rec) == rec.calls = <<>>

resolved(rec) == rec.pc = "done" /\ rec.result = "ok"

failed(rec) == rec.pc = "done" /\ rec.result = "fail"

\* the first position of e in s
firstIndex(s, e) == CHOOSE k \in 1..Len(s) : s[k] = e /\ \A j \in 1..(k - 1) : s[j] # e

\* v is s without its repeated elements, in the order of first occurrence
isDeduplicationOf(v, s) ==
    /\ Range(v) = Range(s)
    /\ \A j, k \in 1..Len(v) : j # k => v[j] # v[k]
    /\ \A j, k \in 1..Len(v) : j < k => firstIndex(s, v[j]) < firstIndex(s, v[k])

\* C1: whenever the feature gate is denied at the moment of a call (the context
\* has a workspace, or the application quality is 'stable'), addRoots and
\* removeRoots resolve successfully without any call to the writer, the prompt
\* or the window opener.
C1_GateDeniedIsNoOp ==
    \A i \in Callers :
        (started(inv[i]) /\ ~inv[i].gate) => (noCollaboratorCall(inv[i]) /\ resolved(inv[i]))

\* C2: idempotence: when the normalized desired set equals, element by element,
\* the current root set, the operation resolves successfully with no writer
\* call, no prompt and no window-open call (stated for the calls the gate allows).
C2_UnchangedIsNoOp ==
    \A i \in Callers :
        (started(inv[i]) /\ inv[i].gate /\ inv[i].desired = canonicals(inv[i].cur))
            => (noCollaboratorCall(inv[i]) /\ resolved(inv[i]))

C4_AddWritesFullList ==
    \A i \in Callers :
        LET rec == inv[i] IN
        (/\ started(rec)
         /\ rec.op = "add"
         /\ rec.gate
         /\ rec.cfg # NoConfiguration
         /\ \E k \in 1..Len(rec.arg) : canonical(rec.arg[k]) \notin Range(canonicals(rec.cur)))
            => /\ Len(rec.calls) = 1
               /\ rec.calls[1].svc = "write"
               /\ rec.calls[1].target = rec.cfg
               /\ rec.calls[1].key = "folders"
               /\ isDeduplicationOf(rec.calls[1].value, canonicals(rec.cur \o rec.arg))
               /\ SubSeq(rec.calls[1].value, 1, Len(rec.cur)) = canonicals(rec.cur)

C4_Witness ==
    \E i \in Callers :
        /\ resolved(inv[i])
        /\ inv[i].op = "add"
        /\ inv[i].gate
        /\ inv[i].cfg # NoConfiguration
        /\ Len(inv[i].cur) = 1
        /\ Len(inv[i].arg) = 2
        /\ canonical(inv[i].arg[1]) = canonical(inv[i].cur[1])
        /\ Len(inv[i].calls) = 1
        /\ Len(inv[i].calls[1].value) = 2
        /\ files[inv[i].cfg].folders = inv[i].calls[1].value

\* C5: removeRoots computes the desired set as the current roots, in their
\* order, minus exactly those whose canonical string form (the form validation
\* uses) equals the canonical string form of some entry of rootsToRemove
\* (stated for the calls the gate allows).
C5_RemoveByCanonicalForm ==
    \A i \in Callers :
        LET rec == inv[i]
            removed == {canonical(rec.arg[k]) : k \in 1..Len(rec.arg)}
        IN (started(rec) /\ rec.gate /\ rec.op = "remove")
            => rec.desired = canonicals(SelectSeq(rec.cur, LAMBDA root : canonical(root) \notin removed))

\* C6: without a configuration and with a non-empty desired set, the calls of
\* one invocation come in the order prompt, whole-file write of the new
\* configuration with folders equal to the normalized desired set, openWindow;
\* openWindow is called only after that write succeeded and is handed the
\* file that was just written.
C6_PromptThenWriteThenOpen ==
    \A i \in Callers :
        LET rec == inv[i]
            c == rec.calls
        IN (started(rec) /\ rec.cfg = NoConfiguration /\ rec.desired # <<>>) =>
            /\ Len(c) <= 3
            /\ Len(c) >= 1 => c[1].svc = "choose"
            /\ Len(c) >= 2 => /\ c[2].svc = "write"
                              /\ c[2].key = ""
                              /\ c[2].value.folders = rec.desired
            /\ Len(c) >= 3 => /\ c[3].svc = "openWindow"
                              /\ c[2].outcome = "ok"
                              /\ c[3].target = c[2].target
                              /\ c[3].target \in DOMAIN files
                              /\ files[c[3].target].folders = rec.desired

C6_Witness ==
    \E i \in Callers :
        /\ resolved(inv[i])
        /\ inv[i].cfg = NoConfiguration
        /\ Len(inv[i].desired) = 2
        /\ Len(inv[i].calls) = 3
        /\ inv[i].calls[3].svc = "openWindow"

\* C7: if the prompt fails or is cancelled on the create-new-workspace path, the
\* invocation makes no writer call and no openWindow call, no configuration
\* file is created, and the caller gets a failure.
C7_PromptFailureStopsTheChain ==
    \A i \in Callers :
        LET rec == inv[i] IN
        (\E k \in callsOf(rec, "choose") : rec.calls[k].outcome = "fail") =>
            /\ callsOf(rec, "write") = {}
            /\ callsOf(rec, "openWindow") = {}
            /\ DOMAIN files = {}
            /\ failed(rec)

C7_Witness ==
    \E i \in Callers :
        /\ failed(inv[i])
        /\ Len(inv[i].calls) = 1
        /\ inv[i].calls[1].svc = "choose"
        /\ inv[i].calls[1].outcome = "fail"

\* C8: if the initial whole-file write of the new configuration fails,
\* openWindow is never called by that invocation and the caller gets the failure.
C8_MaterializationFailureSkipsOpenWindow ==
    \A i \in Callers :
        LET rec == inv[i] IN
        (\E k \in callsOf(rec, "write") : rec.calls[k].key = "" /\ rec.calls[k].outcome = "fail") =>
            /\ callsOf(rec, "openWindow") = {}
            /\ failed(rec)

C8_Witness ==
    \E i \in Callers :
        /\ failed(inv[i])
        /\ Len(inv[i].calls) = 2
        /\ inv[i].calls[1].outcome = "ok"
        /\ inv[i].calls[2].svc = "write"
        /\ inv[i].calls[2].key = ""
        /\ inv[i].calls[2].outcome = "fail"

\* C9: when the 'folders' write to an existing configuration fails, the caller
\* gets a failed result and the invocation issues no second write.
C9_FoldersWriteFailurePropagates ==
    \A i \in Callers :
        LET rec == inv[i] IN
        (\E k \in callsOf(rec, "write") :
            rec.calls[k].key = "folders" /\ rec.calls[k].outcome = "fail") =>
            /\ failed(rec)
            /\ Cardinality(callsOf(rec, "write")) = 1
            /\ Len(rec.calls) = 1

C9_Witness ==
    \E i \in Callers :
        /\ failed(inv[i])
        /\ inv[i].cfg = existingConfiguration
        /\ Len(inv[i].calls) = 1
        /\ inv[i].calls[1].key = "folders"
        /\ inv[i].calls[1].outcome = "fail"

\* C10: when the normalized desired set is empty and differs from the current
\* set, the operation resolves successfully and makes no writer call, no
\* prompt and no openWindow call, with or without a configuration.
C10_EmptyDesiredIsNoOp ==
    \A i \in Callers :
        (started(inv[i]) /\ inv[i].desired = <<>> /\ inv[i].cur # <<>>)
            => (noCollaboratorCall(inv[i]) /\ resolved(inv[i]))

C10_Witness ==
    \E i \in Callers :
        /\ resolved(inv[i])
        /\ inv[i].op = "remove"
        /\ Len(inv[i].cur) = 2
        /\ inv[i].desired = <<>>
        /\ inv[i].cfg = existingConfiguration
        /\ files[existingConfiguration].folders = canonicals(inv[i].cur)

\* the folders list a writer call hands over
foldersOf(call) == IF call.key = "" THEN call.value.folders ELSE call.value

noDuplicates(s) == \A j, k \in 1..Len(s) : j # k => s[j] # s[k]

\* C11: every folders value handed to the writer, the 'folders' overwrite of an
\* existing configuration as well as the initial payload of a new one, holds
\* no two entries of the same canonical form.
C11_NoDuplicateFoldersWritten ==
    \A i \in Callers :
        \A k \in callsOf(inv[i], "write") : noDuplicates(foldersOf(inv[i].calls[k]))

\* both kinds of write, each after an argument that repeats a canonical form
C11_Witness ==
    \E i \in Callers :
        /\ inv[i].op = "add"
        /\ Len(inv[i].arg) = 2
        /\ inv[i].arg[1] # inv[i].arg[2]
        /\ canonical(inv[i].arg[1]) = canonical(inv[i].arg[2])
        /\ \E k \in callsOf(inv[i], "write") :
            /\ inv[i].calls[k].outcome = "ok"
            /\ inv[i].calls[k].key = ""
            /\ Len(foldersOf(inv[i].calls[k])) = Len(inv[i].cur) + 1

\* C12: validateRoots returns, for every list of roots, their canonical forms
\* without duplicates in the order of first occurrence (every canonical form of
\* the input exactly once), and the empty list for null; the result depends on
\* the input alone.
C12_ValidateRootsDeduplicates ==
    probe.pc = "returned" =>
        IF probe.input = null THEN probe.output = <<>>
        ELSE isDeduplicationOf(probe.output, canonicals(probe.input))

C12_Witness ==
    /\ probe.pc = "returned"
    /\ probe.input # null
    /\ Len(probe.input) = 3
    /\ canonical(probe.input[1]) = canonical(probe.input[3])
    /\ canonical(probe.input[1]) # canonical(probe.input[2])
    /\ Len(probe.output) = 2
    /\ roots # <<>>

\* two invocation records that differ at most in the recorded answer
sameButOption(r0, r1) == [r0 EXCEPT !.option = -1] = [r1 EXCEPT !.option = -1]

withOption(rec, option) == [rec EXCEPT !.option = option]

\* C13: the answer to the prompt does not influence what follows: from the same
\* state, the run that answers 'Yes' and the run that answers 'No' issue the
\* same materialization write and the same openWindow call and yield the same
\* result. Stated step by step: at every point of the chain, the two runs'
\* next steps agree in everything but the recorded answer.
C13_AnswerDoesNotMatter ==
    \A i \in Callers :
        LET rec == inv[i] IN
        /\ rec.pc = "choose" =>
               \A ID \in Uuids :
                   sameButOption(afterChoose(rec, "ok", 0, ID), afterChoose(rec, "ok", 1, ID))
        /\ rec.pc = "create_write" =>
               \A how \in {"ok", "fail"} :
                   sameButOption(afterCreateWrite(withOption(rec, 0), how),
                                 afterCreateWrite(withOption(rec, 1), how))
        /\ rec.pc = "open" =>
               \A how \in {"ok", "fail"} :
                   sameButOption(afterOpenWindow(withOption(rec, 0), how),
                                 afterOpenWindow(withOption(rec, 1), how))

\* the answer 'Yes' (option 0, not the default) led to the write and the window
C13_Witness ==
    \E i \in Callers :
        /\ resolved(inv[i])
        /\ inv[i].option = 0
        /\ Len(inv[i].calls) = 3
        /\ inv[i].calls[2].svc = "write"
        /\ inv[i].calls[2].outcome = "ok"
        /\ inv[i].calls[3].svc = "openWindow"

\* C14: each materialization writes, with the empty key, a payload made of the
\* generated identifier under field `id` and the folders list, to the path
\* settings-home/<id>.<extension>; the identifier in the payload is the one in
\* the file name, and the path opened is that same path.
C14_MaterializationPayloadAndPath ==
    \A i \in Callers :
        LET rec == inv[i] IN
        \A k \in callsOf(rec, "write") :
            rec.cfg = NoConfiguration =>
                /\ rec.calls[k].key = ""
                /\ DOMAIN rec.calls[k].value = {"id", "folders"}
                /\ rec.calls[k].value.folders = rec.desired
                /\ rec.calls[k].target = pathJoin(appSettingsHome, rec.calls[k].value.id \o ".vscode")
                /\ \A j \in callsOf(rec, "openWindow") : rec.calls[j].target = rec.calls[k].target

\* C15: no operation of the service changes the Workspace Context (current
\* roots, configuration reference, hasWorkspace): every step of an addRoots or
\* removeRoots invocation, failing ones included, leaves it as it was.
C15_ContextIsOnlyRead ==
    [][roots' = roots /\ configuration' = configuration /\ hasWorkspace' = hasWorkspace]_vars

\* a failed and a written invocation, the context still what the call read
C15_Witness ==
    \E i \in Callers :
        /\ inv[i].pc = "done"
        /\ Len(inv[i].calls) >= 2
        /\ inv[i].calls[2].outcome = "ok"
        /\ inv[i].result = "fail"
        /\ inv[i].cur = roots
        /\ inv[i].cfg = configuration
        /\ inv[i].newConfiguration \in DOMAIN files

\* the two invocations wrote 'folders' of the existing configuration, and both writes succeeded
bothWroteFolders(i, j) ==
    /\ i # j
    /\ resolved(inv[i]) /\ resolved(inv[j])
    /\ inv[i].op = "add" /\ inv[j].op = "add"
    /\ inv[i].cfg = existingConfiguration /\ inv[j].cfg = existingConfiguration
    /\ Len(inv[i].calls) = 1 /\ Len(inv[j].calls) = 1
    /\ inv[i].cur = inv[j].cur

\* each invocation added one root that the context did not hold, and not the same one
addedDifferentNewRoots(i, j) ==
    /\ canonical(inv[i].arg[1]) # canonical(inv[j].arg[1])
    /\ canonical(inv[i].arg[1]) \notin Range(canonicals(inv[i].cur))
    /\ canonical(inv[j].arg[1]) \notin Range(canonicals(inv[j].cur))

\* C16: no mutual exclusion: with two addRoots invocations in flight against the
\* same configuration, both reading the context before either write shows in
\* it, the later 'folders' write fully replaces the earlier one: the list on
\* disk is the list of one of the two writes, never their merge, so when the
\* two added different new roots, one of them is missing from it.
C16_LaterWriteReplacesEarlier ==
    \A i, j \in Callers :
        bothWroteFolders(i, j) =>
            LET f == files[existingConfiguration].folders IN
            /\ f \in {inv[i].calls[1].value, inv[j].calls[1].value}
            /\ addedDifferentNewRoots(i, j) =>
                   ~(canonical(inv[i].arg[1]) \in Range(f) /\ canonical(inv[j].arg[1]) \in Range(f))

\* the lost update: both succeeded, the root one of them added is not on disk
C16_Witness ==
    \E i, j \in Callers :
        /\ bothWroteFolders(i, j)
        /\ addedDifferentNewRoots(i, j)
        /\ inv[i].cur # <<>>
        /\ canonical(inv[i].arg[1]) \notin Range(files[existingConfiguration].folders)
        /\ canonical(inv[j].arg[1]) \in Range(files[existingConfiguration].folders)

\* the materialization writes of an invocation
materializations(rec) == {k \in callsOf(rec, "write") : rec.calls[k].key = ""}

\* C17: every materialization generates its own identifier: two invocations
\* that both take the create-new-workspace path get two distinct identifiers
\* and two distinct paths, so none overwrites the file of another, and each
\* materialization that succeeded has created exactly one file.
C17_FreshIdentifierPerMaterialization ==
    /\ \A i, j \in Callers :
        i # j =>
            \A k \in materializations(inv[i]), l \in materializations(inv[j]) :
                /\ inv[i].calls[k].value.ID # inv[j].calls[l].value.ID
                /\ inv[i].calls[k].target # inv[j].calls[l].target
    /\ \A i \in Callers : Cardinality(materializations(inv[i])) <= 1
    /\ Cardinality(DOMAIN files \ {existingConfiguration})
         = Cardinality({i \in Callers :
                           \E k \in materializations(inv[i]) : inv[i].calls[k].outcome = "ok"})

C17_Witness ==
    \E i, j \in Callers :
        /\ i # j
        /\ resolved(inv[i]) /\ resolved(inv[j])
        /\ Len(inv[i].calls) = 3 /\ Len(inv[j].calls) = 3
        /\ inv[i].newConfiguration # inv[j].newConfiguration
        /\ DOMAIN files = {inv[i].newConfiguration, inv[j].newConfiguration}
        /\ files[inv[i].newConfiguration].folders = inv[i].desired
        /\ files[inv[j].newConfiguration].folders = inv[j].desired
        /\ inv[i].desired # inv[j].desired

\* C18: each invocation makes at most one prompt call, at most one writer call
\* and at most one openWindow call, and, every collaborator call settling
\* sooner or later, it settles, and settles once: a settled invocation stays
\* as it is.
C18_AtMostOneCallEachAndSettlesOnce ==
    /\ [](\A i \in Callers : \A svc \in {"choose", "write", "openWindow"} :
              Cardinality(callsOf(inv[i], svc)) <= 1)
    /\ \A i \in Callers : started(inv[i]) ~> (inv[i].pc = "done")
    /\ [][\A i \in Callers : inv[i].pc = "done" => inv'[i] = inv[i]]_vars

\* one call of each collaborator, and settled
C18_Witness ==
    \E i \in Callers :
        /\ inv[i].pc = "done"
        /\ Cardinality(callsOf(inv[i], "choose")) = 1
        /\ Cardinality(callsOf(inv[i], "write")) = 1
        /\ Cardinality(callsOf(inv[i], "openWindow")) = 1

\* C19: with the invocations serialized and the context following the file,
\* adding roots that are not present to a non-empty folders list of an existing
\* configuration and then removing exactly those roots leaves the persisted
\* folders list as it was before the add.
C19_AddThenRemoveRestoresFolders ==
    scenario.phase = "end" => files[configuration].folders = scenario.before

\* the same for added roots whose encoded and unencoded string forms agree
C19_AddThenRemoveRestoresPlainFolders ==
    (/\ scenario.phase = "end"
     /\ \A k \in 1..Len(scenario.added) :
            toString(scenario.added[k], FALSE) = toString(scenario.added[k], TRUE))
        => files[configuration].folders = scenario.before

\* both invocations wrote the folders list, and the list is as before
C19_Witness ==
    /\ scenario.phase = "end"
    /\ files[configuration].folders = scenario.before

====
